---- MODULE Spec2Model ----
(***************************************************************************)
(* A model of solver_5x5: the 5x5x5 cube state (src/src/state.rs), the     *)
(* move codecs (src/src/moves.rs) and the orbit primitive                  *)
(* (src/src/utils.rs).                                                     *)
(*                                                                         *)
(* Arrays are functions on 0..n-1, as in the source.  Orbits are 4-tuples  *)
(* (indexed 1..4) of 0-based positions.  Enum values are strings; the      *)
(* conversions to and from u8 are operators.                               *)
(***************************************************************************)
EXTENDS Integers, Sequences, FiniteSets, TLC

VARIABLES
    corners_perm, corners_ori, midges_perm, midges_ori, wings, centers_x, centers_plus,
    start,         \* the seven arrays as they were when the run began
    nmoves,        \* the number of make_move calls so far
    trace,         \* SpecAny, SpecStep, SpecPair: the moves applied so far, oldest first
    checked,       \* TRUE: the build has overflow checks (debug), FALSE: it wraps (release)
    panicked,      \* a make_move call panicked
    overflowed,    \* a u8 addition in make_move exceeded 255
    text,          \* codec: the move text, a sequence of characters
    mv,            \* codec: the MoveUnpkd value, <<>> when there is none;
                   \* SpecSeq: the Vec<MoveUnpkd>
    pkd,           \* codec: the MovePkd byte
    ops,           \* codec: the input given and the conversions run on it since
    valid,         \* what the is_self_valid call returned, <<>> before the call
    prim           \* SpecPrim: the arguments and the result of the orbit primitive called

cube_vars == <<corners_perm, corners_ori, midges_perm, midges_ori, wings, centers_x,
               centers_plus, start, nmoves, trace, checked, panicked, overflowed>>
codec_vars == <<text, mv, pkd, ops>>
util_vars == <<valid, prim>>
vars == <<cube_vars, codec_vars, util_vars>>

----------------------------------------------------------------------------
(* Bounds of the model *)

\* Spec: the number of moves applied from new().
MaxMoves == 3
\* SpecAny: the number of moves applied to the sampled state.
MaxTurns == 4
\* SpecCodec: the length of an input text, and the conversions run on one input.
MaxTextLen == 3
MaxOps == 3
\* SpecSeq: the length of a sequence of moves, and the spaces put into its text.
MaxSeqLen == 2
MaxSpaces == 3
\* SpecStep: the number of moves applied to a start state.
MaxSteps == 2
\* SpecPair: the number of moves applied to the sampled state.
MaxPairMoves == 2

----------------------------------------------------------------------------
(* moves.rs: the enums and the two codecs *)

Faces == {"U", "L", "F", "R", "B", "D"}
MoveTypes == {"Outer", "Wide"}
MoveDirs == {"CW", "CCW", "Dub"}

\* MoveUnpkd
Moves == [face : Faces, type_ : MoveTypes, dir : MoveDirs]

\* MovePkd = u8
Bytes == 0..255

\* u8::from(Face)  (IntoPrimitive)
FaceToU8(f) ==
    CASE f = "U" -> 0 [] f = "L" -> 1 [] f = "F" -> 2
      [] f = "R" -> 3 [] f = "B" -> 4 [] f = "D" -> 5

\* Face::from(u8)  (FromPrimitive, #[num_enum(default)] on U)
FaceFromU8DefaultL(n) ==
    CASE n = 0 -> "U" [] n = 1 -> "L" [] n = 2 -> "F"
      [] n = 3 -> "R" [] n = 4 -> "B" [] n = 5 -> "D" [] OTHER -> "L"
FaceFromU8(n) ==
    CASE n = 0 -> "U" [] n = 1 -> "L" [] n = 2 -> "F"
      [] n = 3 -> "R" [] n = 4 -> "B" [] n = 5 -> "D" [] OTHER -> "U"

\* u8::from(MoveType), MoveType::from(u8)
MoveTypeToU8(t) == IF t = "Outer" THEN 0 ELSE 1
MoveTypeFromU8(n) == IF n = 1 THEN "Wide" ELSE "Outer"

\* u8::from(MoveDir), MoveDir::from(u8)
MoveDirToU8(d) == CASE d = "CW" -> 0 [] d = "CCW" -> 1 [] d = "Dub" -> 2
MoveDirFromU8(n) == CASE n = 1 -> "CCW" [] n = 2 -> "Dub" [] OTHER -> "CW"

\* impl From<MovePkd> for MoveUnpkd: the masks and shifts as arithmetic
Unpack(value) ==
    [face  |-> FaceFromU8(value % 8),
     type_ |-> MoveTypeFromU8((value \div 8) % 2),
     dir   |-> MoveDirFromU8((value \div 16) % 4)]

\* impl From<MoveUnpkd> for MovePkd: the fields occupy disjoint bits, so | is +
PackDirAtBit3(value) ==
    FaceToU8(value.face) + MoveTypeToU8(value.type_) * 8 + MoveDirToU8(value.dir) * 8
Pack(value) ==
    FaceToU8(value.face) + MoveTypeToU8(value.type_) * 8 + MoveDirToU8(value.dir) * 16

\* impl From<&MoveUnpkd> for String: the pushed characters, in order
FormatDirFirst(value) ==
    <<value.face>>
    \o (CASE value.dir = "CW" -> <<>> [] value.dir = "CCW" -> <<"'">>
          [] value.dir = "Dub" -> <<"2">>)
    \o (IF value.type_ = "Wide" THEN <<"w">> ELSE <<>>)
Format(value) ==
    <<value.face>>
    \o (IF value.type_ = "Wide" THEN <<"w">> ELSE <<>>)
    \o (CASE value.dir = "CW" -> <<>> [] value.dir = "CCW" -> <<"'">>
          [] value.dir = "Dub" -> <<"2">>)

\* impl From<&str> for MoveUnpkd: <<>> when the call panics, <<m>> otherwise.
\* The face is chars[0], the kind is decided by chars[1] alone, the direction
\* by the last character alone.
ParseDefaultFace(chars) ==
    IF Len(chars) < 1
    THEN <<[face |-> "U", type_ |-> "Outer", dir |-> "CW"]>>
    ELSE <<[face  |-> IF chars[1] \in Faces THEN chars[1] ELSE "U",
            type_ |-> IF Len(chars) >= 2 /\ chars[2] = "w" THEN "Wide" ELSE "Outer",
            dir   |-> CASE chars[Len(chars)] = "'" -> "CCW"
                        [] chars[Len(chars)] = "2" -> "Dub"
                        [] OTHER -> "CW"]>>
Parse(chars) ==
    IF Len(chars) < 1
    THEN <<>>
    ELSE IF chars[1] \notin Faces
    THEN <<>>
    ELSE <<[face  |-> chars[1],
            type_ |-> IF Len(chars) >= 2 /\ chars[2] = "w" THEN "Wide" ELSE "Outer",
            dir   |-> CASE chars[Len(chars)] = "'" -> "CCW"
                        [] chars[Len(chars)] = "2" -> "Dub"
                        [] OTHER -> "CW"]>>

----------------------------------------------------------------------------
(* utils.rs *)

\* letters_arr!: each uppercase letter to its number, A=0 .. Z=25
UpperCase == <<"A", "B", "C", "D", "E", "F", "G", "H", "I", "J", "K", "L", "M",
               "N", "O", "P", "Q", "R", "S", "T", "U", "V", "W", "X", "Y", "Z">>
char_to_number(c) == (CHOOSE i \in 1..26 : UpperCase[i] = c) - 1
letters_arr(s) == [i \in 1..Len(s) |-> char_to_number(s[i])]

\* is_permutation: every value is below n and none is seen twice, that is,
\* the n entries are n different values
IsPermutationRangeOnly(slice, n) ==
    \A i \in 0..(n - 1) : ~(slice[i] >= n)
is_permutation(slice, n) ==
    /\ \A i \in 0..(n - 1) : ~(slice[i] >= n)
    /\ Cardinality({slice[i] : i \in 0..(n - 1)}) = n

\* apply_orbit_with_dir_to_array: the right-hand tuple is read first, then the
\* four places are written in order
WriteOrbit(arr, orbit, v) ==
    LET a1 == [arr EXCEPT ![orbit[1]] = v[1]]
        a2 == [a1 EXCEPT ![orbit[2]] = v[2]]
        a3 == [a2 EXCEPT ![orbit[3]] = v[3]]
    IN  [a3 EXCEPT ![orbit[4]] = v[4]]
ApplyOrbitDubAsCW(arr, orbit, dir) ==
    CASE dir = "CW" ->
           WriteOrbit(arr, orbit, <<arr[orbit[4]], arr[orbit[1]], arr[orbit[2]], arr[orbit[3]]>>)
      [] dir = "CCW" ->
           WriteOrbit(arr, orbit, <<arr[orbit[2]], arr[orbit[3]], arr[orbit[4]], arr[orbit[1]]>>)
      [] dir = "Dub" ->
           WriteOrbit(arr, orbit, <<arr[orbit[4]], arr[orbit[1]], arr[orbit[2]], arr[orbit[3]]>>)
ApplyOrbitCCWAsCW(arr, orbit, dir) ==
    CASE dir = "CW" ->
           WriteOrbit(arr, orbit, <<arr[orbit[4]], arr[orbit[1]], arr[orbit[2]], arr[orbit[3]]>>)
      [] dir = "CCW" ->
           WriteOrbit(arr, orbit, <<arr[orbit[4]], arr[orbit[1]], arr[orbit[2]], arr[orbit[3]]>>)
      [] dir = "Dub" ->
           WriteOrbit(arr, orbit, <<arr[orbit[3]], arr[orbit[4]], arr[orbit[1]], arr[orbit[2]]>>)
ApplyOrbitCWDup(arr, orbit, dir) ==
    CASE dir = "CW" ->
           WriteOrbit(arr, orbit, <<arr[orbit[4]], arr[orbit[1]], arr[orbit[2]], arr[orbit[2]]>>)
      [] dir = "CCW" ->
           WriteOrbit(arr, orbit, <<arr[orbit[2]], arr[orbit[3]], arr[orbit[4]], arr[orbit[1]]>>)
      [] dir = "Dub" ->
           WriteOrbit(arr, orbit, <<arr[orbit[3]], arr[orbit[4]], arr[orbit[1]], arr[orbit[2]]>>)
apply_orbit_with_dir_to_array(arr, orbit, dir) ==
    CASE dir = "CW" ->
           WriteOrbit(arr, orbit, <<arr[orbit[4]], arr[orbit[1]], arr[orbit[2]], arr[orbit[3]]>>)
      [] dir = "CCW" ->
           WriteOrbit(arr, orbit, <<arr[orbit[2]], arr[orbit[3]], arr[orbit[4]], arr[orbit[1]]>>)
      [] dir = "Dub" ->
           WriteOrbit(arr, orbit, <<arr[orbit[3]], arr[orbit[4]], arr[orbit[1]], arr[orbit[2]]>>)

----------------------------------------------------------------------------
(* state.rs: the orbit tables, indexed by face number + 1 *)

CornerOrbitsSharedSlot ==
    << <<0, 1, 2, 3>>, <<0, 3, 4, 7>>, <<3, 2, 5, 4>>,
       <<2, 1, 6, 5>>, <<1, 0, 7, 6>>, <<4, 5, 6, 3>> >>
CORNER_ORBITS ==
    << <<0, 1, 2, 3>>, <<0, 3, 4, 7>>, <<3, 2, 5, 4>>,
       <<2, 1, 6, 5>>, <<1, 0, 7, 6>>, <<4, 5, 6, 7>> >>

CornerChangesAllOnes ==
    << <<0, 0, 0, 0>>, <<1, 1, 1, 1>>, <<1, 1, 1, 1>>,
       <<1, 1, 1, 1>>, <<1, 1, 1, 1>>, <<0, 0, 0, 0>> >>
CORNER_ORIENTATION_CHANGES ==
    << <<0, 0, 0, 0>>, <<1, 2, 1, 2>>, <<1, 2, 1, 2>>,
       <<1, 2, 1, 2>>, <<1, 2, 1, 2>>, <<0, 0, 0, 0>> >>

MIDGE_ORBITS ==
    << <<0, 1, 2, 3>>, <<3, 5, 11, 6>>, <<2, 4, 8, 5>>,
       <<1, 7, 9, 4>>, <<0, 6, 10, 7>>, <<8, 9, 10, 11>> >>

WING_ORBITS_OUTER ==
    << <<letters_arr(<<"A", "B", "C", "D">>), letters_arr(<<"E", "Q", "M", "I">>)>>,
       <<letters_arr(<<"E", "F", "G", "H">>), letters_arr(<<"D", "L", "X", "R">>)>>,
       <<letters_arr(<<"I", "J", "K", "L">>), letters_arr(<<"C", "P", "U", "F">>)>>,
       <<letters_arr(<<"M", "N", "O", "P">>), letters_arr(<<"B", "T", "V", "J">>)>>,
       <<letters_arr(<<"Q", "R", "S", "T">>), letters_arr(<<"A", "H", "W", "N">>)>>,
       <<letters_arr(<<"U", "V", "W", "X">>), letters_arr(<<"K", "O", "S", "G">>)>> >>

WING_ORBITS_WIDE ==
    << letters_arr(<<"L", "H", "T", "P">>), letters_arr(<<"Q", "C", "K", "W">>),
       letters_arr(<<"B", "O", "X", "E">>), letters_arr(<<"A", "S", "U", "I">>),
       letters_arr(<<"M", "D", "G", "V">>), letters_arr(<<"J", "N", "R", "F">>) >>

CENTER_ORBITS_WIDE_X ==
    << <<letters_arr(<<"F", "R", "N", "J">>), letters_arr(<<"E", "Q", "M", "I">>)>>,
       <<letters_arr(<<"A", "I", "U", "S">>), letters_arr(<<"D", "L", "X", "R">>)>>,
       <<letters_arr(<<"D", "M", "V", "G">>), letters_arr(<<"C", "P", "U", "F">>)>>,
       <<letters_arr(<<"C", "Q", "W", "K">>), letters_arr(<<"B", "T", "V", "J">>)>>,
       <<letters_arr(<<"B", "E", "X", "O">>), letters_arr(<<"A", "H", "W", "N">>)>>,
       <<letters_arr(<<"L", "P", "T", "H">>), letters_arr(<<"K", "O", "S", "G">>)>> >>

----------------------------------------------------------------------------
(* state.rs: State *)

\* The struct, as a record of the seven arrays
State ==
    [corners_perm |-> corners_perm, corners_ori |-> corners_ori,
     midges_perm |-> midges_perm, midges_ori |-> midges_ori,
     wings |-> wings, centers_x |-> centers_x, centers_plus |-> centers_plus]

\* iter().sum() of the 8 corner and the 12 midge orientations (as usize: no
\* overflow), and iter().filter(..).count() over arr[0..n-1]
Sum8(a) == a[0] + a[1] + a[2] + a[3] + a[4] + a[5] + a[6] + a[7]
Sum12(a) == a[0] + a[1] + a[2] + a[3] + a[4] + a[5] + a[6] + a[7] + a[8] + a[9] + a[10] + a[11]
Count(arr, n, num) == Cardinality({i \in 0..(n - 1) : arr[i] = num})

\* State::is_self_valid
is_self_valid(s) ==
    /\ is_permutation(s.corners_perm, 8)
    /\ \A i \in 0..7 : ~(s.corners_ori[i] >= 3)
    /\ Sum8(s.corners_ori) % 3 = 0
    /\ is_permutation(s.midges_perm, 12)
    /\ \A i \in 0..11 : ~(s.midges_ori[i] >= 2)
    /\ Sum12(s.midges_ori) % 2 = 0
    /\ is_permutation(s.wings, 24)
    /\ \A i \in 0..23 : ~(s.centers_plus[i] >= 6)
    /\ \A num \in 0..5 : Count(s.centers_plus, 24, num) = 4
    /\ \A i \in 0..23 : ~(s.centers_x[i] >= 6)
    /\ \A num \in 0..5 : Count(s.centers_x, 24, num) = 4

\* State::new
new ==
    [corners_perm |-> [i \in 0..7 |-> i],
     corners_ori  |-> [i \in 0..7 |-> 0],
     midges_perm  |-> [i \in 0..11 |-> i],
     midges_ori   |-> [i \in 0..11 |-> 0],
     wings        |-> [i \in 0..23 |-> i],
     centers_x    |-> [i \in 0..23 |-> i \div 4],
     centers_plus |-> [i \in 0..23 |-> i \div 4]]

\* The loop `for i in 0..4 { o[orbit[i]] = (o[orbit[i]] + changes[i]) % modulus }`
\* on u8 values.  A sum above 255 panics in a build with overflow checks and
\* wraps in one without; after a panic the loop does not go on.
OriStep(acc, orbit, changes, modulus, chk, i) ==
    IF acc.panic
    THEN acc
    ELSE LET sum == acc.arr[orbit[i]] + changes[i]
         IN  IF sum > 255
             THEN IF chk
                  THEN [arr |-> acc.arr, panic |-> TRUE, ovf |-> TRUE]
                  ELSE [arr |-> [acc.arr EXCEPT ![orbit[i]] = (sum % 256) % modulus],
                        panic |-> FALSE, ovf |-> TRUE]
             ELSE [arr |-> [acc.arr EXCEPT ![orbit[i]] = sum % modulus],
                   panic |-> FALSE, ovf |-> acc.ovf]
OriLoop(arr, orbit, changes, modulus, chk) ==
    LET a0 == [arr |-> arr, panic |-> FALSE, ovf |-> FALSE]
        a1 == OriStep(a0, orbit, changes, modulus, chk, 1)
        a2 == OriStep(a1, orbit, changes, modulus, chk, 2)
        a3 == OriStep(a2, orbit, changes, modulus, chk, 3)
    IN  OriStep(a3, orbit, changes, modulus, chk, 4)

\* make_move, CORNERS: the two arrays after the block, with what the loop reported
MoveCornersOriBeforePerm(cp0, co0, m, chk) ==
    LET f == FaceToU8(m.face) + 1
        c_orbit == CORNER_ORBITS[f]
        co_changes == CORNER_ORIENTATION_CHANGES[f]
        cp == apply_orbit_with_dir_to_array(cp0, c_orbit, m.dir)
        r == IF m.dir # "Dub"
             THEN OriLoop(co0, c_orbit, co_changes, 3, chk)
             ELSE [arr |-> co0, panic |-> FALSE, ovf |-> FALSE]
        co == apply_orbit_with_dir_to_array(r.arr, c_orbit, m.dir)
    IN  [perm |-> cp, ori |-> co, panic |-> r.panic, ovf |-> r.ovf]
MoveCorners(cp0, co0, m, chk) ==
    LET f == FaceToU8(m.face) + 1
        c_orbit == CORNER_ORBITS[f]
        co_changes == CORNER_ORIENTATION_CHANGES[f]
        cp == apply_orbit_with_dir_to_array(cp0, c_orbit, m.dir)
        co == apply_orbit_with_dir_to_array(co0, c_orbit, m.dir)
        r == IF m.dir # "Dub"
             THEN OriLoop(co, c_orbit, co_changes, 3, chk)
             ELSE [arr |-> co, panic |-> FALSE, ovf |-> FALSE]
    IN  [perm |-> cp, ori |-> r.arr, panic |-> r.panic, ovf |-> r.ovf]

\* make_move, MIDGES
MoveMidgesFlipAlways(mp0, mo0, m, chk) ==
    LET m_orbit == MIDGE_ORBITS[FaceToU8(m.face) + 1]
        mp == apply_orbit_with_dir_to_array(mp0, m_orbit, m.dir)
        mo == apply_orbit_with_dir_to_array(mo0, m_orbit, m.dir)
        r == IF m.face = "F" \/ m.face = "B"
             THEN OriLoop(mo, m_orbit, <<1, 1, 1, 1>>, 2, chk)
             ELSE [arr |-> mo, panic |-> FALSE, ovf |-> FALSE]
    IN  [perm |-> mp, ori |-> r.arr, panic |-> r.panic, ovf |-> r.ovf]
MoveMidgesOuterOnly(mp0, mo0, m, chk) ==
    LET m_orbit == MIDGE_ORBITS[FaceToU8(m.face) + 1]
        mp == IF m.type_ = "Wide" THEN mp0
              ELSE apply_orbit_with_dir_to_array(mp0, m_orbit, m.dir)
        mo == IF m.type_ = "Wide" THEN mo0
              ELSE apply_orbit_with_dir_to_array(mo0, m_orbit, m.dir)
        r == IF m.type_ # "Wide" /\ m.dir # "Dub" /\ (m.face = "F" \/ m.face = "B")
             THEN OriLoop(mo, m_orbit, <<1, 1, 1, 1>>, 2, chk)
             ELSE [arr |-> mo, panic |-> FALSE, ovf |-> FALSE]
    IN  [perm |-> mp, ori |-> r.arr, panic |-> r.panic, ovf |-> r.ovf]
MoveMidges(mp0, mo0, m, chk) ==
    LET m_orbit == MIDGE_ORBITS[FaceToU8(m.face) + 1]
        mp == apply_orbit_with_dir_to_array(mp0, m_orbit, m.dir)
        mo == apply_orbit_with_dir_to_array(mo0, m_orbit, m.dir)
        r == IF m.dir # "Dub" /\ (m.face = "F" \/ m.face = "B")
             THEN OriLoop(mo, m_orbit, <<1, 1, 1, 1>>, 2, chk)
             ELSE [arr |-> mo, panic |-> FALSE, ovf |-> FALSE]
    IN  [perm |-> mp, ori |-> r.arr, panic |-> r.panic, ovf |-> r.ovf]

\* make_move, WINGS
MoveWingsWideAlways(w, m) ==
    LET f == FaceToU8(m.face) + 1
        w1 == apply_orbit_with_dir_to_array(w, WING_ORBITS_OUTER[f][1], m.dir)
        w2 == apply_orbit_with_dir_to_array(w1, WING_ORBITS_OUTER[f][2], m.dir)
    IN  apply_orbit_with_dir_to_array(w2, WING_ORBITS_WIDE[f], m.dir)
MoveWings(w, m) ==
    LET f == FaceToU8(m.face) + 1
        w1 == apply_orbit_with_dir_to_array(w, WING_ORBITS_OUTER[f][1], m.dir)
        w2 == apply_orbit_with_dir_to_array(w1, WING_ORBITS_OUTER[f][2], m.dir)
    IN  IF m.type_ = "Wide"
        THEN apply_orbit_with_dir_to_array(w2, WING_ORBITS_WIDE[f], m.dir)
        ELSE w2

\* make_move, PLUS CENTERS: the two wing outer orbits serve as the outer and
\* the wide orbit of the + centers
MovePlusCenters(cplus, m) ==
    LET f == FaceToU8(m.face) + 1
        c1 == apply_orbit_with_dir_to_array(cplus, WING_ORBITS_OUTER[f][1], m.dir)
    IN  IF m.type_ = "Wide"
        THEN apply_orbit_with_dir_to_array(c1, WING_ORBITS_OUTER[f][2], m.dir)
        ELSE c1

\* make_move, X CENTERS
MoveXCenters(cx, m) ==
    LET f == FaceToU8(m.face) + 1
        c1 == apply_orbit_with_dir_to_array(cx, WING_ORBITS_OUTER[f][1], m.dir)
        c2 == apply_orbit_with_dir_to_array(c1, CENTER_ORBITS_WIDE_X[f][1], m.dir)
    IN  IF m.type_ = "Wide"
        THEN apply_orbit_with_dir_to_array(c2, CENTER_ORBITS_WIDE_X[f][2], m.dir)
        ELSE c1

\* <State as MoveableState>::make_move on a MoveUnpkd: the five blocks in
\* order, each on its own arrays; a panic leaves the later blocks undone
make_move(s, m, chk) ==
    LET c == MoveCorners(s.corners_perm, s.corners_ori, m, chk)
        g == MoveMidges(s.midges_perm, s.midges_ori, m, chk)
    IN  IF c.panic
        THEN [s |-> [s EXCEPT !.corners_perm = c.perm, !.corners_ori = c.ori],
              panic |-> TRUE, ovf |-> TRUE]
        ELSE IF g.panic
        THEN [s |-> [s EXCEPT !.corners_perm = c.perm, !.corners_ori = c.ori,
                              !.midges_perm = g.perm, !.midges_ori = g.ori],
              panic |-> TRUE, ovf |-> TRUE]
        ELSE [s |-> [corners_perm |-> c.perm, corners_ori |-> c.ori,
                     midges_perm |-> g.perm, midges_ori |-> g.ori,
                     wings |-> MoveWings(s.wings, m),
                     centers_x |-> MoveXCenters(s.centers_x, m),
                     centers_plus |-> MovePlusCenters(s.centers_plus, m)],
              panic |-> FALSE, ovf |-> c.ovf \/ g.ovf]

----------------------------------------------------------------------------
(* Actions on the cube *)

\* make_move(m) on the state held in the variables
MakeMove(m) ==
    /\ ~panicked
    /\ \E r \in {make_move(State, m, checked)} :
           /\ corners_perm' = r.s.corners_perm
           /\ corners_ori' = r.s.corners_ori
           /\ midges_perm' = r.s.midges_perm
           /\ midges_ori' = r.s.midges_ori
           /\ wings' = r.s.wings
           /\ centers_x' = r.s.centers_x
           /\ centers_plus' = r.s.centers_plus
           /\ panicked' = r.panic
           /\ overflowed' = (overflowed \/ r.ovf)
    /\ nmoves' = nmoves + 1
    /\ UNCHANGED <<start, checked, codec_vars, util_vars>>

\* make_move(b) on a packed byte: m.into() decodes it first
MakeMovePkd(b) == MakeMove(Unpack(b))

\* The moves so far all turned the layer (face and kind) that m turns
SameLayer(m) == \A i \in 1..Len(trace) : trace[i].face = m.face /\ trace[i].type_ = m.type_

\* Spec: any move, up to MaxMoves of them
Turn(m) == nmoves < MaxMoves /\ MakeMove(m) /\ UNCHANGED trace

\* SpecAny: moves of one layer, up to MaxTurns of them, given unpacked or packed
\* and recorded in the trace
TurnSame(m) ==
    nmoves < MaxTurns /\ SameLayer(m) /\ MakeMove(m) /\ trace' = Append(trace, m)
TurnSamePkd(b) ==
    nmoves < MaxTurns /\ SameLayer(Unpack(b)) /\ MakeMovePkd(b)
    /\ trace' = Append(trace, Unpack(b))

CodecIdle == text = <<>> /\ mv = <<>> /\ pkd = 0 /\ ops = <<>>

\* No is_self_valid call and no orbit primitive call has been made
NoCall == [kind |-> "none"]
UtilIdle == valid = <<>> /\ prim = NoCall

StartFrom(s) ==
    /\ corners_perm = s.corners_perm
    /\ corners_ori = s.corners_ori
    /\ midges_perm = s.midges_perm
    /\ midges_ori = s.midges_ori
    /\ wings = s.wings
    /\ centers_x = s.centers_x
    /\ centers_plus = s.centers_plus
    /\ start = s
    /\ nmoves = 0
    /\ trace = <<>>
    /\ panicked = FALSE
    /\ overflowed = FALSE

\* The program: State::new(), then moves.  The build is the one with overflow
\* checks (the dev profile); the other differs only once a sum exceeds 255.
Init == StartFrom(new) /\ checked = TRUE /\ CodecIdle /\ UtilIdle
Next == \E m \in Moves : Turn(m)
Spec == Init /\ [][Next]_vars

----------------------------------------------------------------------------
(* Arbitrary State values: the fields are public, so any seven u8 arrays are a
   State.  The sample: new(), and states whose permutation and center arrays
   hold pairwise distinct out-of-range values (so that every slot is told
   apart) and whose orientation arrays hold one sampled byte at one position
   among in-range values. *)

OriSample == {0, 1, 2, 3, 254, 255}
SamplePos == 0..11

SampleState(p, v) ==
    [corners_perm |-> [i \in 0..7 |-> 255 - i],
     corners_ori  |-> [i \in 0..7 |-> IF i = p % 8 THEN v ELSE i % 3],
     midges_perm  |-> [i \in 0..11 |-> 255 - i],
     midges_ori   |-> [i \in 0..11 |-> IF i = p % 12 THEN v ELSE i % 2],
     wings        |-> [i \in 0..23 |-> 255 - i],
     centers_x    |-> [i \in 0..23 |-> 100 + i],
     centers_plus |-> [i \in 0..23 |-> 200 - i]]

SampleStates == {new} \cup {SampleState(p, v) : p \in SamplePos, v \in OriSample}

\* The packed moves given to make_move: every value of the six low bits
PkdSample == 0..63

InitAny ==
    (\E s \in SampleStates : StartFrom(s)) /\ checked \in BOOLEAN /\ CodecIdle /\ UtilIdle
NextAny == (\E m \in Moves : TurnSame(m)) \/ (\E b \in PkdSample : TurnSamePkd(b))
SpecAny == InitAny /\ [][NextAny]_vars

----------------------------------------------------------------------------
(* The codecs: an input (a text, a MoveUnpkd or a byte), then conversions *)

Chars == {"U", "L", "F", "R", "B", "D", "w", "'", "2", "x"}
Texts == UNION {[1..n -> Chars] : n \in 0..MaxTextLen}

InputText(t) ==
    /\ text' = t /\ mv' = <<>> /\ pkd' = 0 /\ ops' = <<"text">>
    /\ UNCHANGED <<cube_vars, util_vars>>
InputMove(m) ==
    /\ text' = <<>> /\ mv' = <<m>> /\ pkd' = 0 /\ ops' = <<"move">>
    /\ UNCHANGED <<cube_vars, util_vars>>
InputByte(b) ==
    /\ text' = <<>> /\ mv' = <<>> /\ pkd' = b /\ ops' = <<"byte">>
    /\ UNCHANGED <<cube_vars, util_vars>>

CanConvert == ops # <<>> /\ Len(ops) <= MaxOps
\* There is a text (given or formatted), a byte (given or packed) to convert
HasText == ops # <<>> /\ (ops[1] = "text" \/ \E i \in 1..Len(ops) : ops[i] = "format")
HasByte == ops # <<>> /\ (ops[1] = "byte" \/ \E i \in 1..Len(ops) : ops[i] = "pack")

\* MoveUnpkd::from(&str); mv is left empty when the call panics
DoParse ==
    /\ CanConvert /\ HasText
    /\ mv' = Parse(text)
    /\ ops' = Append(ops, "parse")
    /\ UNCHANGED <<text, pkd, cube_vars, util_vars>>
\* String::from(&MoveUnpkd)
DoFormat ==
    /\ CanConvert /\ mv # <<>>
    /\ text' = Format(mv[1])
    /\ ops' = Append(ops, "format")
    /\ UNCHANGED <<mv, pkd, cube_vars, util_vars>>
\* MovePkd::from(MoveUnpkd)
DoPack ==
    /\ CanConvert /\ mv # <<>>
    /\ pkd' = Pack(mv[1])
    /\ ops' = Append(ops, "pack")
    /\ UNCHANGED <<text, mv, cube_vars, util_vars>>
\* MoveUnpkd::from(MovePkd)
DoUnpack ==
    /\ CanConvert /\ HasByte
    /\ mv' = <<Unpack(pkd)>>
    /\ ops' = Append(ops, "unpack")
    /\ UNCHANGED <<text, pkd, cube_vars, util_vars>>

InitCodec == StartFrom(new) /\ checked = TRUE /\ CodecIdle /\ UtilIdle
NextCodec ==
    \/ ops = <<>> /\ \E t \in Texts : InputText(t)
    \/ ops = <<>> /\ \E m \in Moves : InputMove(m)
    \/ ops = <<>> /\ \E b \in Bytes : InputByte(b)
    \/ DoParse
    \/ DoFormat
    \/ DoPack
    \/ DoUnpack
SpecCodec == InitCodec /\ [][NextCodec]_vars

----------------------------------------------------------------------------
(* Claims on the cube *)

\* Every orientation counter of s is in its domain
OriInRange(s) ==
    /\ \A i \in 0..7 : s.corners_ori[i] < 3
    /\ \A i \in 0..11 : s.midges_ori[i] < 2

\* The trace is n moves of one layer, all in direction d
Repeated(n, d) ==
    /\ Len(trace) = n
    /\ \A i \in 1..n : trace[i] = trace[1] /\ trace[i].dir = d

\* The trace is the CW move of a layer, then its CCW move
CWThenCCW ==
    /\ Len(trace) = 2
    /\ trace[1].dir = "CW" /\ trace[2].dir = "CCW"
    /\ trace[2].face = trace[1].face /\ trace[2].type_ = trace[1].type_

\* C1: every state reached from new() by make_move calls passes is_self_valid:
\* the three permutation arrays are bijections, corner orientations are below 3
\* and sum to 0 mod 3, midge orientations are below 2 and sum to 0 mod 2, and
\* each color occurs 4 times in centers_x and in centers_plus.
C1_ReachableIsValid == ~panicked /\ is_self_valid(State)

C1_Witness ==
    /\ nmoves >= 3
    /\ \E i \in 0..7 : corners_ori[i] # 0
    /\ \E i \in 0..11 : midges_ori[i] # 0
    /\ centers_x # new.centers_x /\ centers_plus # new.centers_plus
    /\ wings # new.wings

\* C2 as stated: from any State value whatever, four CW moves of one layer
\* give back the seven arrays.
C2_FourCWAnyState == Repeated(4, "CW") => State = start

\* C2 amended: from any State value whose orientation counters are in their
\* domains (corners below 3, midges below 2; the sums and the other five
\* arrays arbitrary), four CW moves of one layer give back the seven arrays.
C2_FourCWOriInRange ==
    (OriInRange(start) /\ Repeated(4, "CW")) => (~panicked /\ State = start)

C2_Witness ==
    /\ OriInRange(start) /\ start # new
    /\ Repeated(4, "CW")
    /\ trace[1].face = "F" /\ trace[1].type_ = "Wide"

\* C3 as stated: from any State value whatever, the CW move of a layer and then
\* its CCW move give back the seven arrays (and R then R' from new() is new()).
C3_CWThenCCWAnyState == CWThenCCW => State = start

\* C3 amended: from any State value whose orientation counters are in their
\* domains, the CW move of a layer and then its CCW move give back the seven
\* arrays; in particular R then R' from new() is exactly new().
C3_CWThenCCWOriInRange ==
    /\ (OriInRange(start) /\ CWThenCCW) => (~panicked /\ State = start)
    /\ (start = new /\ trace = <<[face |-> "R", type_ |-> "Outer", dir |-> "CW"],
                                 [face |-> "R", type_ |-> "Outer", dir |-> "CCW"]>>)
           => State = new

C3_Witness ==
    /\ OriInRange(start) /\ start # new
    /\ CWThenCCW
    /\ trace[1].face = "B" /\ trace[1].type_ = "Wide"

\* C4: from any State value whatever (valid or not), two Half moves of one
\* layer give back the seven arrays.
C4_HalfTwice == Repeated(2, "Dub") => (~panicked /\ State = start)

C4_Witness ==
    /\ Repeated(2, "Dub")
    /\ ~OriInRange(start)
    /\ \E i \in 0..7 : start.corners_ori[i] = 255
    /\ trace[1].face = "L" /\ trace[1].type_ = "Wide"

\* Every table index make_move forms for packed byte b is inside its table,
\* and every orbit position is inside the array it indexes
IndexInRange(b) ==
    LET f == FaceToU8(Unpack(b).face)
    IN  /\ f \in 0..5
        /\ \A i \in 1..4 :
             /\ CORNER_ORBITS[f + 1][i] \in 0..7
             /\ MIDGE_ORBITS[f + 1][i] \in 0..11
             /\ WING_ORBITS_OUTER[f + 1][1][i] \in 0..23
             /\ WING_ORBITS_OUTER[f + 1][2][i] \in 0..23
             /\ WING_ORBITS_WIDE[f + 1][i] \in 0..23
             /\ CENTER_ORBITS_WIDE_X[f + 1][1][i] \in 0..23
             /\ CENTER_ORBITS_WIDE_X[f + 1][2][i] \in 0..23

\* C5: make_move has no failure path: for every move, every packed byte and
\* every State value of arbitrary u8 entries, no index is out of range and no
\* u8 addition of the orientation updates overflows.
C5_NoFailurePath ==
    /\ \A b \in Bytes : IndexInRange(b)
    /\ ~overflowed
    /\ ~panicked

----------------------------------------------------------------------------
(* Claims on the codecs *)

LastOp == IF ops = <<>> THEN "none" ELSE ops[Len(ops)]

\* The numbering of the packed code: 0=U .. 5=D, 0=Outer 1=Wide, 0=CW 1=CCW 2=Half
FaceOrder == <<"U", "L", "F", "R", "B", "D">>
TypeOrder == <<"Outer", "Wide">>
DirOrder == <<"CW", "CCW", "Dub">>
NumberIn(order, x) == (CHOOSE i \in 1..Len(order) : order[i] = x) - 1

\* t is the face letter, then w iff Wide, then ' iff CCW or 2 iff Half
TextHasShape(t, m) ==
    /\ Len(t) = 1 + (IF m.type_ = "Wide" THEN 1 ELSE 0) + (IF m.dir = "CW" THEN 0 ELSE 1)
    /\ t[1] = m.face
    /\ m.type_ = "Wide" => t[2] = "w"
    /\ m.dir = "CCW" => t[Len(t)] = "'"
    /\ m.dir = "Dub" => t[Len(t)] = "2"

\* The texts of the grammar <Face><w?><'|2?>
GrammarTexts == {t \in Texts : \E m \in Moves : TextHasShape(t, m)}

MoveRw2 == [face |-> "R", type_ |-> "Wide", dir |-> "Dub"]
TextRw2 == <<"R", "w", "2">>

\* C6: the text codec round-trips: parsing the text formatted from a move gives
\* that move back; formatting the parse of a text of the grammar gives that
\* text back; and a formatted text is the face letter, w iff Wide, then ' iff
\* CCW or 2 iff Half.
C6_TextRoundTrip ==
    [][/\ ops' = Append(ops, "format") => TextHasShape(text', mv[1])
       /\ (LastOp = "format" /\ ops' = Append(ops, "parse")) => mv' = mv
       /\ (LastOp = "parse" /\ text \in GrammarTexts /\ ops' = Append(ops, "format"))
              => text' = text]_vars

C6_Witness ==
    /\ ops = <<"move", "format", "parse">>
    /\ text = TextRw2
    /\ mv = <<MoveRw2>>

\* C7: the packed codec round-trips: packing puts the face in bits 0-2, the
\* kind in bit 3 and the turn in bits 4-5; unpacking the packed byte gives the
\* move back, so distinct moves have distinct bytes; the parse of "Rw2" is
\* (R, Wide, Half) and survives packing and unpacking.
C7_PackedRoundTrip ==
    /\ \A m1, m2 \in Moves : m1 # m2 => Pack(m1) # Pack(m2)
    /\ [][/\ ops' = Append(ops, "pack") =>
                 /\ pkd' < 64
                 /\ pkd' % 8 = NumberIn(FaceOrder, mv[1].face)
                 /\ (pkd' \div 8) % 2 = NumberIn(TypeOrder, mv[1].type_)
                 /\ (pkd' \div 16) % 4 = NumberIn(DirOrder, mv[1].dir)
          /\ (LastOp = "pack" /\ ops' = Append(ops, "unpack")) => mv' = mv
          /\ (text' = TextRw2 /\ ops' = <<"text", "parse">>) => mv' = <<MoveRw2>>]_vars

C7_Witness ==
    /\ ops = <<"text", "parse", "pack", "unpack">>
    /\ text = TextRw2
    /\ pkd = 43
    /\ mv = <<MoveRw2>>

\* C8: unpacking never fails, and clamps each field on its own: face bits 6
\* and 7 give U, turn bits 3 give CW, the kind bit gives Outer or Wide, fields
\* in range keep their values, and bits 6-7 change nothing.
C8_UnpackClamps ==
    LastOp = "unpack" =>
        /\ Len(mv) = 1
        /\ mv[1].face = (IF pkd % 8 \in {6, 7} THEN "U" ELSE FaceOrder[(pkd % 8) + 1])
        /\ mv[1].type_ = TypeOrder[((pkd \div 8) % 2) + 1]
        /\ mv[1].dir = (IF (pkd \div 16) % 4 = 3 THEN "CW"
                        ELSE DirOrder[((pkd \div 16) % 4) + 1])
        /\ mv[1] = Unpack(pkd % 64)

C8_Witness ==
    /\ ops = <<"byte", "unpack">>
    /\ pkd = 255
    /\ mv = <<[face |-> "U", type_ |-> "Wide", dir |-> "CW"]>>

\* C9: parsing an empty text, or one whose first character is not a face
\* letter, fails and produces no move.
C9_ParseRejectsBadFace ==
    (LastOp = "parse" /\ (text = <<>> \/ text[1] \notin {"U", "L", "F", "R", "B", "D"}))
        => mv = <<>>

C9_Witness ==
    /\ ops = <<"text", "parse">>
    /\ text = <<"x", "2">>
    /\ mv = <<>>

\* C10: a text that starts with a face letter but is not of the grammar
\* <Face><w?><'|2?> does not parse to a move.
C10_ParseRejectsMalformed ==
    (LastOp = "parse" /\ text # <<>> /\ text[1] \in Faces /\ text \notin GrammarTexts)
        => mv = <<>>

----------------------------------------------------------------------------
(* moves.rs: sequences of moves as text.  In SpecSeq, mv holds the
   Vec<MoveUnpkd> and text the joined or given string. *)

\* str::split(' '): the pieces between the spaces, the empty ones included
RECURSIVE SplitOnSpace(_)
SplitOnSpace(chars) ==
    IF \A i \in 1..Len(chars) : chars[i] # " "
    THEN <<chars>>
    ELSE LET k == CHOOSE i \in 1..Len(chars) :
                      chars[i] = " " /\ \A j \in 1..(i - 1) : chars[j] # " "
         IN  <<SubSeq(chars, 1, k - 1)>> \o SplitOnSpace(SubSeq(chars, k + 1, Len(chars)))

\* Itertools::join(" ")
RECURSIVE JoinWithSpace(_)
JoinWithSpace(strs) ==
    IF strs = <<>> THEN <<>>
    ELSE IF Len(strs) = 1 THEN strs[1]
    ELSE strs[1] \o <<" ">> \o JoinWithSpace(Tail(strs))

\* The moves of the pieces, or a panic when one piece does not parse
ParsePieces(pieces) ==
    LET parsed == [i \in 1..Len(pieces) |-> Parse(pieces[i])]
    IN  IF \E i \in 1..Len(pieces) : parsed[i] = <<>>
        THEN [moves |-> <<>>, panic |-> TRUE]
        ELSE [moves |-> [i \in 1..Len(pieces) |-> parsed[i][1]], panic |-> FALSE]

ConvertStringNoFilter(s) ==
    IF s = <<>>
    THEN [moves |-> <<>>, panic |-> FALSE]
    ELSE ParsePieces(SplitOnSpace(s))
\* convert_string_to_moves
convert_string_to_moves(s) ==
    IF s = <<>>
    THEN [moves |-> <<>>, panic |-> FALSE]
    ELSE ParsePieces(SelectSeq(SplitOnSpace(s), LAMBDA p : p # <<>>))

\* convert_moves_to_string
convert_moves_to_string(moves) ==
    JoinWithSpace([i \in 1..Len(moves) |-> Format(moves[i])])

\* The sequences given to convert_moves_to_string: up to MaxSeqLen moves of
\* three faces, of both kinds and all turn amounts
SeqMoves == {m \in Moves : m.face \in {"U", "R", "F"}}
MoveSeqs == UNION {[1..n -> SeqMoves] : n \in 0..MaxSeqLen}
\* The strings given to convert_string_to_moves directly
SeqChars == Chars \cup {" "}
SeqTexts == UNION {[1..n -> SeqChars] : n \in 0..MaxTextLen}

InputMoves(ms) ==
    /\ text' = <<>> /\ mv' = ms /\ pkd' = 0 /\ ops' = <<"moves">>
    /\ UNCHANGED <<cube_vars, util_vars>>
InputString(t) ==
    /\ text' = t /\ mv' = <<>> /\ pkd' = 0 /\ ops' = <<"string">>
    /\ UNCHANGED <<cube_vars, util_vars>>

DoJoin ==
    /\ ops = <<"moves">>
    /\ text' = convert_moves_to_string(mv)
    /\ ops' = Append(ops, "join")
    /\ UNCHANGED <<mv, pkd, cube_vars, util_vars>>

\* The caller's string has been made and not yet been converted
HasString ==
    /\ ops # <<>>
    /\ ops[1] = "string" \/ (Len(ops) >= 2 /\ ops[2] = "join")
    /\ ops[Len(ops)] \notin {"split", "split!"}

\* The caller puts one more space into the joined string: in front, at the
\* end, or next to a space
AddSpace(k) ==
    /\ HasString /\ ops[1] = "moves"
    /\ Cardinality({i \in 1..Len(ops) : ops[i] = "space"}) < MaxSpaces
    /\ k \in {0, Len(text)}
              \cup {j \in 1..(Len(text) - 1) : text[j] = " " \/ text[j + 1] = " "}
    /\ text' = SubSeq(text, 1, k) \o <<" ">> \o SubSeq(text, k + 1, Len(text))
    /\ ops' = Append(ops, "space")
    /\ UNCHANGED <<mv, pkd, cube_vars, util_vars>>

\* convert_string_to_moves(text); "split!" records that the call panicked
DoSplit ==
    /\ HasString
    /\ \E r \in {convert_string_to_moves(text)} :
           /\ mv' = r.moves
           /\ ops' = Append(ops, IF r.panic THEN "split!" ELSE "split")
    /\ UNCHANGED <<text, pkd, cube_vars, util_vars>>

InitSeq == StartFrom(new) /\ checked = TRUE /\ CodecIdle /\ UtilIdle
NextSeq ==
    \/ (ops = <<>> /\ \E ms \in MoveSeqs : InputMoves(ms))
    \/ (ops = <<>> /\ \E t \in SeqTexts : InputString(t))
    \/ DoJoin
    \/ (HasString /\ \E k \in 0..Len(text) : AddSpace(k))
    \/ DoSplit
SpecSeq == InitSeq /\ [][NextSeq]_vars

\* C11: converting a sequence of moves to a string and back gives the same
\* sequence (the empty sequence gives the empty string and comes back empty),
\* also when spaces were put in front of, behind or next to the separators of
\* the string before converting back.
C11_SeqRoundTrip ==
    [][/\ (ops = <<"moves">> /\ ops' = <<"moves", "join">> /\ mv = <<>>) => text' = <<>>
       /\ (/\ ops # <<>> /\ ops[1] = "moves"
           /\ Len(ops') = Len(ops) + 1
           /\ ops'[Len(ops')] \in {"split", "split!"})
              => (ops'[Len(ops')] = "split" /\ mv' = mv)]_vars

C11_Witness ==
    /\ ops = <<"moves", "join", "space", "space", "space", "split">>
    /\ mv = <<[face |-> "R", type_ |-> "Wide", dir |-> "Dub"],
              [face |-> "U", type_ |-> "Outer", dir |-> "CCW"]>>
    /\ text = <<" ", "R", "w", "2", " ", " ", "U", "'", " ">>

----------------------------------------------------------------------------
(* state.rs: is_self_valid on any State value.  The sample: new() with two
   neighbouring entries of one array overwritten by sampled bytes, which
   holds states that break each condition alone and states that keep all. *)

Fields == {"corners_perm", "corners_ori", "midges_perm", "midges_ori",
           "wings", "centers_x", "centers_plus"}
FieldLen(f) ==
    CASE f \in {"corners_perm", "corners_ori"} -> 8
      [] f \in {"midges_perm", "midges_ori"} -> 12
      [] OTHER -> 24
ByteSample == {0, 1, 2, 3, 5, 6, 255}
Overwrite(s, f, p, v) == [s EXCEPT ![f] = [@ EXCEPT ![p] = v]]
ValidSample(f, p, v, w) ==
    Overwrite(Overwrite(new, f, p, v), f, (p + 1) % FieldLen(f), w)

\* is_self_valid(&self): the result is recorded, the state is only read
CheckValid ==
    /\ valid = <<>>
    /\ valid' = <<is_self_valid(State)>>
    /\ UNCHANGED <<cube_vars, codec_vars, prim>>

InitValid ==
    /\ \E f \in Fields : \E p \in 0..(FieldLen(f) - 1) : \E v \in ByteSample, w \in ByteSample :
           \E s \in {ValidSample(f, p, v, w)} : StartFrom(s)
    /\ checked = TRUE /\ CodecIdle /\ UtilIdle
NextValid == CheckValid
SpecValid == InitValid /\ [][NextValid]_vars

\* The n entries hit every value of 0..n-1 exactly once
Bijection(arr, n) ==
    \A v \in 0..(n - 1) : Cardinality({i \in 0..(n - 1) : arr[i] = v}) = 1
RECURSIVE SumBelow(_, _)
SumBelow(arr, n) == IF n = 0 THEN 0 ELSE arr[n - 1] + SumBelow(arr, n - 1)
FourOfEachColor(arr) ==
    /\ \A i \in 0..23 : arr[i] < 6
    /\ \A c \in 0..5 : Cardinality({i \in 0..23 : arr[i] = c}) = 4
ValidAsStated(s) ==
    /\ Bijection(s.corners_perm, 8)
    /\ Bijection(s.midges_perm, 12)
    /\ Bijection(s.wings, 24)
    /\ \A i \in 0..7 : s.corners_ori[i] < 3
    /\ SumBelow(s.corners_ori, 8) % 3 = 0
    /\ \A i \in 0..11 : s.midges_ori[i] < 2
    /\ SumBelow(s.midges_ori, 12) % 2 = 0
    /\ FourOfEachColor(s.centers_x)
    /\ FourOfEachColor(s.centers_plus)

\* C12: is_self_valid returns true exactly when the three permutation arrays
\* are bijections onto their index ranges, the corner orientations are below 3
\* and sum to 0 mod 3, the midge orientations are below 2 and sum to 0 mod 2,
\* and both center arrays hold colors below 6, four of each; and the call
\* leaves the state as it was.
C12_IsSelfValidExact ==
    valid # <<>> => (valid[1] = ValidAsStated(State) /\ State = start)

C12_Witness ==
    /\ valid = <<FALSE>>
    /\ corners_ori[0] = 3 /\ corners_ori[1] = 0
    /\ is_permutation(corners_perm, 8)

----------------------------------------------------------------------------
(* utils.rs: the packed orbit primitives, on u16 *)

\* The operators of u16: &, |, !, << and >> (shift amounts below 16)
RECURSIVE BitAnd(_, _)
BitAnd(a, b) ==
    IF a = 0 \/ b = 0 THEN 0
    ELSE (IF a % 2 = 1 /\ b % 2 = 1 THEN 1 ELSE 0) + 2 * BitAnd(a \div 2, b \div 2)
RECURSIVE BitOr(_, _)
BitOr(a, b) ==
    IF a = 0 THEN b
    ELSE IF b = 0 THEN a
    ELSE (IF a % 2 = 1 \/ b % 2 = 1 THEN 1 ELSE 0) + 2 * BitOr(a \div 2, b \div 2)
Not16(a) == 65535 - a
Shl16(a, n) == (a * 2^n) % 65536
Shr16(a, n) == a \div 2^n
\* as u8
AsU8(a) == a % 256

\* The match on dir, on the local [u8; 4]
RotateFour(arr, dir) ==
    CASE dir = "CW"  -> <<arr[4], arr[1], arr[2], arr[3]>>
      [] dir = "CCW" -> <<arr[2], arr[3], arr[4], arr[1]>>
      [] dir = "Dub" -> <<arr[3], arr[4], arr[1], arr[2]>>

PackedU16NoClear(arr_packed, orbit, dir) ==
    LET arr == RotateFour([i \in 1..4 |-> BitAnd(AsU8(Shr16(arr_packed, orbit[i])), 1)], dir)
    IN  BitOr(arr_packed,
              BitOr(BitOr(Shl16(arr[1], orbit[1]), Shl16(arr[2], orbit[2])),
                    BitOr(Shl16(arr[3], orbit[3]), Shl16(arr[4], orbit[4]))))
\* apply_orbit_with_dir_to_packed_u16: the new value of *arr_packed
apply_orbit_with_dir_to_packed_u16(arr_packed, orbit, dir) ==
    LET arr == RotateFour([i \in 1..4 |-> BitAnd(AsU8(Shr16(arr_packed, orbit[i])), 1)], dir)
        cleared == BitAnd(arr_packed,
                          Not16(BitOr(BitOr(Shl16(1, orbit[1]), Shl16(1, orbit[2])),
                                      BitOr(Shl16(1, orbit[3]), Shl16(1, orbit[4])))))
    IN  BitOr(cleared,
              BitOr(BitOr(Shl16(arr[1], orbit[1]), Shl16(arr[2], orbit[2])),
                    BitOr(Shl16(arr[3], orbit[3]), Shl16(arr[4], orbit[4]))))

\* apply_orbit_with_dir_to_double_packed_u16: the new value of *arr_packed
apply_orbit_with_dir_to_double_packed_u16(arr_packed, orbit, dir) ==
    LET arr == RotateFour([i \in 1..4 |->
                              BitAnd(AsU8(Shr16(arr_packed, 2 * orbit[i])), 3)], dir)
        cleared == BitAnd(arr_packed,
                          Not16(BitOr(BitOr(Shl16(3, 2 * orbit[1]), Shl16(3, 2 * orbit[2])),
                                      BitOr(Shl16(3, 2 * orbit[3]), Shl16(3, 2 * orbit[4])))))
    IN  BitOr(cleared,
              BitOr(BitOr(Shl16(arr[1], 2 * orbit[1]), Shl16(arr[2], 2 * orbit[2])),
                    BitOr(Shl16(arr[3], 2 * orbit[3]), Shl16(arr[4], 2 * orbit[4]))))

----------------------------------------------------------------------------
(* The primitives called once on sampled arguments.  prim holds the array
   handed to the array primitive and, for arrays of 1-bit and 2-bit values,
   the u16 that holds the same lanes and is handed to the packed primitive. *)

\* One bit per slot, two bits per slot
RECURSIVE PackLanes(_, _, _)
PackLanes(arr, n, width) ==
    IF n = 0 THEN 0
    ELSE arr[n - 1] * 2^(width * (n - 1)) + PackLanes(arr, n - 1, width)
UnpackLanes(x, n, width) == [i \in 0..(n - 1) |-> (x \div 2^(width * i)) % 2^width]

\* Orbits: four distinct positions, in any order
OrbitsOver(positions) ==
    {o \in [1..4 -> positions] : \A i, j \in 1..4 : i # j => o[i] # o[j]}
ArrayOrbits == OrbitsOver(0..7)
BitOrbits == OrbitsOver({0, 1, 2, 6, 7, 8, 9, 13, 14, 15})
PairOrbits == OrbitsOver(0..7)

ArraySamples ==
    {[i \in 0..7 |-> 10 + i], [i \in 0..7 |-> i % 3], [i \in 0..7 |-> 255 - (i % 2)]}
BitSamples == {UnpackLanes(x, 16, 1) : x \in {42435, 23100, 3855, 32769}}
PairSamples == {UnpackLanes(x, 8, 2) : x \in {6939, 58596, 50115, 65535}}

PrimInputs ==
    {[kind |-> "array", calls |-> 0, arr |-> a, packed |-> 0] : a \in ArraySamples}
    \cup {[kind |-> "bits", calls |-> 0, arr |-> a, packed |-> PackLanes(a, 16, 1)] :
             a \in BitSamples}
    \cup {[kind |-> "pairs", calls |-> 0, arr |-> a, packed |-> PackLanes(a, 8, 2)] :
             a \in PairSamples}

Called(arr, packed, orbit, dir) ==
    [kind |-> prim.kind, calls |-> 1, arr |-> arr, packed |-> packed,
     old |-> prim.arr, oldpacked |-> prim.packed, orbit |-> orbit, dir |-> dir]

ApplyToArray(orbit, dir) ==
    /\ prim.kind = "array" /\ prim.calls = 0
    /\ prim' = Called(apply_orbit_with_dir_to_array(prim.arr, orbit, dir), 0, orbit, dir)
    /\ UNCHANGED <<cube_vars, codec_vars, valid>>
ApplyToBits(orbit, dir) ==
    /\ prim.kind = "bits" /\ prim.calls = 0
    /\ prim' = Called(apply_orbit_with_dir_to_array(prim.arr, orbit, dir),
                      apply_orbit_with_dir_to_packed_u16(prim.packed, orbit, dir),
                      orbit, dir)
    /\ UNCHANGED <<cube_vars, codec_vars, valid>>
ApplyToPairs(orbit, dir) ==
    /\ prim.kind = "pairs" /\ prim.calls = 0
    /\ prim' = Called(apply_orbit_with_dir_to_array(prim.arr, orbit, dir),
                      apply_orbit_with_dir_to_double_packed_u16(prim.packed, orbit, dir),
                      orbit, dir)
    /\ UNCHANGED <<cube_vars, codec_vars, valid>>

InitPrim ==
    /\ StartFrom(new) /\ checked = TRUE /\ CodecIdle /\ valid = <<>>
    /\ prim \in PrimInputs
NextPrim ==
    \/ (prim.kind = "array" /\ prim.calls = 0
        /\ \E o \in ArrayOrbits, d \in MoveDirs : ApplyToArray(o, d))
    \/ (prim.kind = "bits" /\ prim.calls = 0
        /\ \E o \in BitOrbits, d \in MoveDirs : ApplyToBits(o, d))
    \/ (prim.kind = "pairs" /\ prim.calls = 0
        /\ \E o \in PairOrbits, d \in MoveDirs : ApplyToPairs(o, d))
SpecPrim == InitPrim /\ [][NextPrim]_vars

OrbitSet(orbit) == {orbit[i] : i \in 1..4}
SameMultiset(a, b) ==
    \A v \in {a[i] : i \in DOMAIN a} \cup {b[i] : i \in DOMAIN b} :
        Cardinality({i \in DOMAIN a : a[i] = v}) = Cardinality({i \in DOMAIN b : b[i] = v})
OutsideKept(orbit) ==
    \A p \in DOMAIN prim.old : p \notin OrbitSet(orbit) => prim.arr[p] = prim.old[p]

\* C13: the array primitive on an orbit (p0,p1,p2,p3) of distinct positions
\* writes old[p3],old[p0],old[p1],old[p2] into p0..p3 for CW,
\* old[p1],old[p2],old[p3],old[p0] for CCW and old[p2],old[p3],old[p0],old[p1]
\* for Half; every other position keeps its value and the multiset of the
\* array's values is unchanged.
C13_ArrayPrimitive ==
    (prim.kind = "array" /\ prim.calls = 1) =>
        LET p == prim.orbit
            old == prim.old
            got == <<prim.arr[p[1]], prim.arr[p[2]], prim.arr[p[3]], prim.arr[p[4]]>>
        IN  /\ prim.dir = "CW"  => got = <<old[p[4]], old[p[1]], old[p[2]], old[p[3]]>>
            /\ prim.dir = "CCW" => got = <<old[p[2]], old[p[3]], old[p[4]], old[p[1]]>>
            /\ prim.dir = "Dub" => got = <<old[p[3]], old[p[4]], old[p[1]], old[p[2]]>>
            /\ OutsideKept(p)
            /\ SameMultiset(prim.arr, old)

C13_Witness ==
    /\ prim.kind = "array" /\ prim.calls = 1
    /\ prim.dir = "CW" /\ prim.orbit = <<5, 2, 7, 0>>
    /\ prim.old = [i \in 0..7 |-> 10 + i]
    /\ prim.arr = [i \in 0..7 |-> CASE i = 5 -> 10 [] i = 2 -> 15 [] i = 7 -> 12
                                    [] i = 0 -> 17 [] OTHER -> 10 + i]

\* C14: the array primitive on an array of 1-bit values followed by packing
\* gives the u16 that the 1-bit packed primitive gives on the packed array,
\* and so for 2-bit values and the 2-bit packed primitive; the lanes outside
\* the orbit are unchanged in the array and in the u16.
C14_PackedAgree ==
    (prim.kind \in {"bits", "pairs"} /\ prim.calls = 1) =>
        LET width == IF prim.kind = "bits" THEN 1 ELSE 2
            n == 16 \div width
            lanes == UnpackLanes(prim.packed, n, width)
        IN  /\ prim.oldpacked = PackLanes(prim.old, n, width)
            /\ prim.packed = PackLanes(prim.arr, n, width)
            /\ OutsideKept(prim.orbit)
            /\ \A p \in 0..(n - 1) :
                   p \notin OrbitSet(prim.orbit) => lanes[p] = prim.old[p]

C14_Witness ==
    /\ prim.kind = "bits" /\ prim.calls = 1
    /\ prim.dir = "CCW" /\ prim.orbit = <<15, 0, 8, 7>>
    /\ prim.oldpacked = 32769
    /\ prim.packed = 32896

----------------------------------------------------------------------------
(* Moves, one at a time and recorded, from new() and from scrambled states:
   states that make_move calls reach from new(). *)

RECURSIVE Replay(_, _)
Replay(s, ms) ==
    IF ms = <<>>
    THEN s
    ELSE CHOOSE out \in {Replay(t, Tail(ms)) : t \in {make_move(s, Head(ms), TRUE).s}} : TRUE

Mv(face, type_, dir) == [face |-> face, type_ |-> type_, dir |-> dir]
Scrambles ==
    {<<>>,
     <<Mv("F", "Outer", "CW"), Mv("R", "Outer", "CW"), Mv("U", "Outer", "CW")>>,
     <<Mv("F", "Wide", "CW"), Mv("L", "Outer", "CCW"), Mv("B", "Wide", "Dub"),
       Mv("D", "Outer", "CW"), Mv("R", "Wide", "CCW"), Mv("U", "Outer", "Dub")>>,
     <<Mv("B", "Outer", "CCW"), Mv("U", "Wide", "CW"), Mv("L", "Wide", "Dub"),
       Mv("F", "Outer", "CCW"), Mv("D", "Wide", "CW"), Mv("R", "Outer", "CW")>>}
StepStarts == {Replay(new, sc) : sc \in Scrambles}

Step(m) == nmoves < MaxSteps /\ MakeMove(m) /\ trace' = Append(trace, m)

InitStep ==
    (\E s \in StepStarts : StartFrom(s)) /\ checked = TRUE /\ CodecIdle /\ UtilIdle
NextStep == \E m \in Moves : Step(m)
SpecStep == InitStep /\ [][NextStep]_vars

----------------------------------------------------------------------------
(* Claims on the effect of one move *)

\* The orientation that a piece had before the move, wherever it was
OldMidgeOriOf(piece) == midges_ori[CHOOSE q \in 0..11 : midges_perm[q] = piece]
OldCornerOriOf(piece) == corners_ori[CHOOSE q \in 0..7 : corners_perm[q] = piece]

\* C15: from a valid state, a CW or CCW move of F or B (either kind) leaves at
\* each position of the face's midge orbit the flipped (1 - x) orientation of
\* the piece that arrived there and keeps the other 8 midges_ori entries; a
\* Half move and any move of U, L, R, D only carry the orientations with their
\* pieces.  From new(), F leaves midges_ori 1 at exactly 2, 4, 8, 5.
C15_MidgeOriRule ==
    [][(nmoves' = nmoves + 1 /\ is_self_valid(State)) =>
          LET m == trace'[Len(trace')]
              orbit == OrbitSet(MIDGE_ORBITS[FaceToU8(m.face) + 1])
          IN  /\ IF m.dir # "Dub" /\ m.face \in {"F", "B"}
                 THEN /\ \A p \in orbit :
                             midges_ori'[p] = 1 - OldMidgeOriOf(midges_perm'[p])
                      /\ \A p \in (0..11) \ orbit : midges_ori'[p] = midges_ori[p]
                 ELSE \A p \in 0..11 : midges_ori'[p] = OldMidgeOriOf(midges_perm'[p])
              /\ (State = new /\ m.face = "F" /\ m.dir = "CW") =>
                     midges_ori' = [p \in 0..11 |-> IF p \in {2, 4, 8, 5} THEN 1 ELSE 0]
      ]_vars

C15_Witness ==
    /\ start = new
    /\ trace = <<Mv("F", "Outer", "CW"), Mv("B", "Wide", "CCW")>>
    /\ midges_ori = [p \in 0..11 |-> IF p \in {2, 4, 8, 5, 0, 6, 10, 7} THEN 1 ELSE 0]

\* C16: in every state reached from new() by make_move calls, the 12 midge
\* orientation values sum to 0 mod 3 (the doc comment of the field midges_ori).
C16_MidgeOriSumMod3 == SumBelow(midges_ori, 12) % 3 = 0

\* C17: from a valid state, after a CW or CCW move of face f (either kind) the
\* orientation at CORNER_ORBITS[f][i] is (orientation of the piece that arrived
\* there + CORNER_ORIENTATION_CHANGES[f][i]) mod 3, the changes being 0 for U
\* and D and (1,2,1,2) for L, F, R, B; after a Half move the orientation at
\* orbit[i] is the old one at orbit[(i+2) mod 4]; the four corners outside the
\* orbit keep position and orientation.
C17_CornerOriRule ==
    [][(nmoves' = nmoves + 1 /\ is_self_valid(State)) =>
          LET m == trace'[Len(trace')]
              f == FaceToU8(m.face) + 1
              orbit == CORNER_ORBITS[f]
              delta == IF m.face \in {"U", "D"} THEN <<0, 0, 0, 0>> ELSE <<1, 2, 1, 2>>
          IN  /\ CORNER_ORIENTATION_CHANGES[f] = delta
              /\ m.dir # "Dub" =>
                     \A i \in 1..4 :
                         corners_ori'[orbit[i]] =
                             (OldCornerOriOf(corners_perm'[orbit[i]]) + delta[i]) % 3
              /\ m.dir = "Dub" =>
                     \A i \in 1..4 :
                         corners_ori'[orbit[i]] = corners_ori[orbit[((i + 1) % 4) + 1]]
              /\ \A p \in (0..7) \ OrbitSet(orbit) :
                     corners_perm'[p] = corners_perm[p] /\ corners_ori'[p] = corners_ori[p]
      ]_vars

C17_Witness ==
    /\ start = new
    /\ trace = <<Mv("R", "Outer", "CW"), Mv("F", "Wide", "CCW")>>
    /\ corners_perm = [p \in 0..7 |-> <<0, 2, 6, 5, 3, 4, 1, 7>>[p + 1]]
    /\ corners_ori = [p \in 0..7 |-> <<0, 2, 1, 2, 2, 1, 1, 0>>[p + 1]]

----------------------------------------------------------------------------
(* Moves of opposite faces, recorded, on sampled State values of both builds *)

Opposite(f, g) == {f, g} \in {{"U", "D"}, {"L", "R"}, {"F", "B"}}

PairStarts == {new} \cup {SampleState(p, v) : p \in {0, 3, 6, 9}, v \in OriSample}

\* Any move first, then moves of the face opposite to the move before
TurnPair(m) ==
    /\ Len(trace) < MaxPairMoves
    /\ trace # <<>> => Opposite(trace[Len(trace)].face, m.face)
    /\ MakeMove(m)
    /\ trace' = Append(trace, m)

InitPair ==
    (\E s \in PairStarts : StartFrom(s)) /\ checked \in BOOLEAN /\ CodecIdle /\ UtilIdle
NextPair == \E m \in Moves : TurnPair(m)
SpecPair == InitPair /\ [][NextPair]_vars

\* The orbit place whose old value CW, CCW, Half put into place i (1..4)
SrcIndex(i, dir) ==
    CASE dir = "CW" -> ((i + 2) % 4) + 1
      [] dir = "CCW" -> (i % 4) + 1
      [] dir = "Dub" -> ((i + 1) % 4) + 1
Shifted(old, arr, orbit, dir) ==
    \A i \in 1..4 : arr[orbit[i]] = old[orbit[SrcIndex(i, dir)]]
KeptOutside(old, arr, touched) ==
    \A p \in (DOMAIN old) \ touched : arr[p] = old[p]

\* C18: an Outer move of face f changes no entry outside f's outer orbits (4
\* corner slots, 4 midge slots, the 8 wing slots of WING_ORBITS_OUTER[f], the
\* 4 centers_x and 4 centers_plus slots of its first orbit); a Wide move
\* changes in addition only the entries of WING_ORBITS_WIDE[f] on wings, of
\* the second wing outer orbit on centers_plus and of both
\* CENTER_ORBITS_WIDE_X[f] orbits on centers_x, which it permutes, and does to
\* corners_perm, corners_ori, midges_perm, midges_ori what the Outer move does.
C18_Frame ==
    [][nmoves' = nmoves + 1 =>
          LET m == trace'[Len(trace')]
              f == FaceToU8(m.face) + 1
              wide == m.type_ = "Wide"
              out1 == WING_ORBITS_OUTER[f][1]
              out2 == WING_ORBITS_OUTER[f][2]
              ww == WING_ORBITS_WIDE[f]
              x1 == CENTER_ORBITS_WIDE_X[f][1]
              x2 == CENTER_ORBITS_WIDE_X[f][2]
              c_touched == OrbitSet(CORNER_ORBITS[f])
              m_touched == OrbitSet(MIDGE_ORBITS[f])
              w_touched == OrbitSet(out1) \cup OrbitSet(out2)
                               \cup (IF wide THEN OrbitSet(ww) ELSE {})
              p_touched == OrbitSet(out1) \cup (IF wide THEN OrbitSet(out2) ELSE {})
              x_touched == OrbitSet(out1)
                               \cup (IF wide THEN OrbitSet(x1) \cup OrbitSet(x2) ELSE {})
          IN  /\ Cardinality(c_touched) = 4 /\ Cardinality(m_touched) = 4
              /\ Cardinality(w_touched) = (IF wide THEN 12 ELSE 8)
              /\ Cardinality(p_touched) = (IF wide THEN 8 ELSE 4)
              /\ Cardinality(x_touched) = (IF wide THEN 12 ELSE 4)
              /\ KeptOutside(corners_perm, corners_perm', c_touched)
              /\ KeptOutside(corners_ori, corners_ori', c_touched)
              /\ KeptOutside(midges_perm, midges_perm', m_touched)
              /\ KeptOutside(midges_ori, midges_ori', m_touched)
              /\ KeptOutside(wings, wings', w_touched)
              /\ KeptOutside(centers_plus, centers_plus', p_touched)
              /\ KeptOutside(centers_x, centers_x', x_touched)
              /\ wide =>
                     \E r \in {make_move(State, [m EXCEPT !.type_ = "Outer"], checked)} :
                         /\ corners_perm' = r.s.corners_perm
                         /\ corners_ori' = r.s.corners_ori
                         /\ midges_perm' = r.s.midges_perm
                         /\ midges_ori' = r.s.midges_ori
                         /\ panicked' = r.panic
              /\ (wide /\ ~panicked') =>
                     /\ Shifted(wings, wings', ww, m.dir)
                     /\ Shifted(centers_plus, centers_plus', out2, m.dir)
                     /\ Shifted(centers_x, centers_x', x1, m.dir)
                     /\ Shifted(centers_x, centers_x', x2, m.dir)
      ]_vars

C18_Witness ==
    /\ trace = <<Mv("U", "Wide", "CW")>>
    /\ ~panicked
    /\ start.wings = [i \in 0..23 |-> 255 - i]
    /\ wings[11] = 240 /\ wings[7] = 244 /\ wings[19] = 248 /\ wings[15] = 236
    /\ wings[20] = 235

HalfOf(m) == [m EXCEPT !.dir = "Dub"]
\* The state before the last two recorded moves
BeforeLastTwo == Replay(start, SubSeq(trace, 1, Len(trace) - 2))

\* C19: from a valid state, for every face and either kind, the CW move made
\* twice, and the CCW move made twice, gives in all seven arrays the state
\* that the Half move of the same face and kind gives.
C19_HalfIsTwoQuarters ==
    (/\ Len(trace) >= 2
     /\ trace[Len(trace)] = trace[Len(trace) - 1]
     /\ trace[Len(trace)].dir # "Dub"
     /\ is_self_valid(BeforeLastTwo))
        => \E r \in {make_move(BeforeLastTwo, HalfOf(trace[Len(trace)]), checked)} :
               ~panicked /\ ~r.panic /\ State = r.s

C19_Witness ==
    /\ start # new
    /\ trace = <<Mv("L", "Wide", "CCW"), Mv("L", "Wide", "CCW")>>
    /\ corners_ori # start.corners_ori
    /\ State = make_move(start, Mv("L", "Wide", "Dub"), checked).s

\* make_move(a) then make_move(b) from s: the arrays when both calls return,
\* a panic when one of them panics
ThenMove(r1, b, chk) ==
    IF r1.panic
    THEN [panic |-> TRUE]
    ELSE CHOOSE out \in {IF r2.panic THEN [panic |-> TRUE]
                         ELSE [panic |-> FALSE, s |-> r2.s] :
                             r2 \in {make_move(r1.s, b, chk)}} : TRUE
TwoMoves(s, a, b, chk) ==
    CHOOSE out \in {ThenMove(r1, b, chk) : r1 \in {make_move(s, a, chk)}} : TRUE

\* The slots of each array that the moves of a face (Outer or Wide) touch
TouchedBy(face) ==
    LET f == FaceToU8(face) + 1
        out1 == OrbitSet(WING_ORBITS_OUTER[f][1])
        out2 == OrbitSet(WING_ORBITS_OUTER[f][2])
    IN  [corners |-> OrbitSet(CORNER_ORBITS[f]),
         midges  |-> OrbitSet(MIDGE_ORBITS[f]),
         wings   |-> out1 \cup out2 \cup OrbitSet(WING_ORBITS_WIDE[f]),
         plus    |-> out1 \cup out2,
         x       |-> out1 \cup OrbitSet(CENTER_ORBITS_WIDE_X[f][1])
                          \cup OrbitSet(CENTER_ORBITS_WIDE_X[f][2])]
OppositeOrbitsDisjoint ==
    \A f, g \in Faces :
        Opposite(f, g) =>
            \A k \in {"corners", "midges", "wings", "plus", "x"} :
                TouchedBy(f)[k] \cap TouchedBy(g)[k] = {}

\* C20: for every State and every two moves a, b of opposite faces (any kinds,
\* any turn amounts), a then b and b then a end alike: in the same seven
\* arrays, or in a panic both; the orbits that the moves of opposite faces
\* touch are disjoint in every array.
C20_OppositeCommute ==
    /\ OppositeOrbitsDisjoint
    /\ (Len(trace) = 2 /\ Opposite(trace[1].face, trace[2].face)) =>
           \E r \in {TwoMoves(start, trace[2], trace[1], checked)} :
               /\ r.panic = panicked
               /\ ~panicked => r.s = State
    /\ (Len(trace) = 1 /\ panicked) =>
           \A b \in Moves :
               Opposite(b.face, trace[1].face) =>
                   TwoMoves(start, b, trace[1], checked).panic

C20_Witness ==
    /\ trace = <<Mv("L", "Wide", "CW"), Mv("R", "Outer", "CCW")>>
    /\ ~panicked /\ overflowed /\ ~checked
    /\ start.corners_ori[6] = 255
    /\ State = TwoMoves(start, Mv("R", "Outer", "CCW"), Mv("L", "Wide", "CW"), FALSE).s

----------------------------------------------------------------------------
(* Claim on the two permutations together *)

\* The parity of a permutation of 0..n-1: its number of inversions mod 2
Parity(perm, n) ==
    Cardinality({pr \in (0..(n - 1)) \X (0..(n - 1)) :
                    pr[1] < pr[2] /\ perm[pr[1]] > perm[pr[2]]}) % 2

\* new() with the corners at positions 0 and 1 exchanged
CornersSwapped == [new EXCEPT !.corners_perm = [@ EXCEPT ![0] = 1, ![1] = 0]]
\* is_self_valid accepts a state whose two parities differ
ValidAllowsUnequalParity ==
    /\ is_self_valid(CornersSwapped)
    /\ Parity(CornersSwapped.corners_perm, 8) # Parity(CornersSwapped.midges_perm, 12)

\* C21: in every state reached from new() by make_move calls the parity of
\* corners_perm equals the parity of midges_perm; is_self_valid does not
\* check this (it accepts states where the parities differ).
C21_ParityEqual ==
    /\ Parity(corners_perm, 8) = Parity(midges_perm, 12)
    /\ ValidAllowsUnequalParity

C21_Witness ==
    /\ start = new
    /\ trace = <<Mv("R", "Wide", "CW"), Mv("U", "Outer", "Dub")>>
    /\ Parity(corners_perm, 8) = 1
    /\ Parity(midges_perm, 12) = 1

====
